---- MODULE Spec2Model ----
(***************************************************************************)
(* A model of gollm: the public LLM wrapper (gollm.go), the provider       *)
(* response parsers, the token-bounded Memory Window and the Prompt        *)
(* Optimizer.  The package gollm/internal/llm (Memory Window, retry loop,  *)
(* optimizer loop) is not part of the sources at hand; those parts follow  *)
(* sections 4.2-4.4 and 7 of the specification and are marked as such.     *)
(***************************************************************************)
EXTENDS Integers, Sequences, FiniteSets, TLC

\* ------------------------------------------------------------------ bounds
MaxBudget == 2        \* token budgets 1..MaxBudget
MaxMsgTokens == 3     \* a message counts 0..MaxMsgTokens tokens
MaxAppends == 4       \* messages appended to one window
MaxRetriesBound == 1  \* Config.MaxRetries ranges over 0..MaxRetriesBound
MaxCalls == 2         \* Generate calls made on one instance
MaxIterations == 3    \* iteration caps 1..MaxIterations
MaxOptRetries == 1    \* the optimizer's MaxRetries ranges over 0..MaxOptRetries
MaxRegisters == 3     \* Register calls made on one registry
MaxPad == 1           \* white space of 0..MaxPad characters around the parts of a text

VARIABLES
  config,     \* the resolved Config NewLLM was built from
  llm,        \* the llmImpl NewLLM returned: memory-wrapped or plain
  pinned,     \* Memory Window: the pinned leading system message, or NoMsg
  history,    \* Memory Window: the retained non-pinned messages, oldest first
  appended,   \* history variable: the ids of the non-pinned messages appended, in order
  nextId,     \* history variable: the number of messages appended so far
  lastAppend, \* the latest Append: ids evicted, warning, error, id and role appended
  gen,        \* the Generate call in flight or last finished
  cancelled,  \* whether the caller's context of that call has ended
  calls,      \* history variable: Generate calls started so far
  optOpts,    \* the options the caller gave NewPromptOptimizer
  po,         \* the PromptOptimizer NewPromptOptimizer returned
  run,        \* the OptimizePrompt run of that optimizer
  optCancelled, \* whether the context of the run has ended
  registry,   \* the ProviderRegistry: its constructors, the Register calls made
              \* (history variable) and what the latest resolution returned
  clean,      \* a text handed to CleanResponse, and what one and two
              \* applications returned
  logruns,    \* two Generate calls on the same inputs, each on an instance
              \* with a logger of its own
  flights,    \* the Generate calls in flight at once on one instance
  mutex,      \* Memory Window: the call holding the window's mutex, or 0
  evicted     \* history variable: the ids the Appends of those calls evicted

memVars == <<config, llm, pinned, history, appended, nextId, lastAppend>>
genVars == <<gen, cancelled, calls>>
optVars == <<optOpts, po, run, optCancelled>>
libVars == <<registry, clean, logruns>>
concVars == <<flights, mutex, evicted>>
llmVars == <<config, llm, pinned, history, appended, nextId, lastAppend,
             gen, cancelled, calls>>
vars == <<config, llm, pinned, history, appended, nextId, lastAppend,
          gen, cancelled, calls, optOpts, po, run, optCancelled, registry, clean, logruns,
          flights, mutex, evicted>>

\* ------------------------------------------------------------- Memory Window
NoMsg == [role |-> "none", id |-> 0, tokens |-> 0]
NoMemory == [enabled |-> FALSE, MaxTokens |-> 0]
NoAppend == [evicted |-> <<>>, warned |-> FALSE, err |-> "nil", id |-> 0,
             role |-> "none"]

Roles == {"system", "user", "assistant"}

\* the ids of a sequence of messages
Ids(msgs) == [i \in 1..Len(msgs) |-> msgs[i].id]

RECURSIVE TokenSum(_)
\* the running token total of a sequence of messages
TokenSum(msgs) ==
  IF msgs = <<>> THEN 0 ELSE Head(msgs).tokens + TokenSum(Tail(msgs))

\* BuildContext: the retained history, oldest first, the pinned system
\* message (when there is one) leading
BuildContext ==
  IF pinned = NoMsg THEN history ELSE <<pinned>> \o history

RECURSIVE EvictCount(_, _, _)
\* how many messages leave the front of h: one at a time while the running
\* total (pinned message included) exceeds the budget; the pinned message is
\* never a candidate
EvictCount(h, pinTokens, budget) ==
  IF h # <<>> /\ pinTokens + TokenSum(h) > budget
  THEN 1 + EvictCount(Tail(h), pinTokens, budget)
  ELSE 0

\* a system message appended to an empty window becomes the pinned leader
Pins(m) == m.role = "system" /\ pinned = NoMsg /\ history = <<>>

\* Append evicting from the newest end instead of the oldest
AppendResult_EvictNewest(p, h, m, pins, budget) ==
  LET p1 == IF pins THEN m ELSE p
      h1 == IF pins THEN h ELSE Append(h, m)
      k  == EvictCount(h1, p1.tokens, budget)
  IN [pinned  |-> p1,
      history |-> SubSeq(h1, 1, Len(h1) - k),
      evicted |-> SubSeq(h1, Len(h1) - k + 1, Len(h1)),
      warned  |-> p1 # NoMsg /\ p1.tokens > budget,
      err     |-> "nil"]

\* Append treating the pinned message as one more candidate for eviction:
\* a pinned message that alone exceeds the budget is dropped
AppendResult_EvictPinned(p, h, m, pins, budget) ==
  LET p1 == IF pins THEN m ELSE p
      h1 == IF pins THEN h ELSE Append(h, m)
      p2 == IF p1.tokens > budget THEN NoMsg ELSE p1
      k  == EvictCount(h1, p2.tokens, budget)
  IN [pinned  |-> p2,
      history |-> SubSeq(h1, k + 1, Len(h1)),
      evicted |-> SubSeq(h1, 1, k),
      warned  |-> FALSE,
      err     |-> "nil"]

\* Append(message): add to the history, then evict from the front while the
\* token total exceeds the budget.  Yields the window after the call.
AppendResult(p, h, m, pins, budget) ==
  LET p1 == IF pins THEN m ELSE p
      h1 == IF pins THEN h ELSE Append(h, m)
      k  == EvictCount(h1, p1.tokens, budget)
  IN [pinned  |-> p1,
      history |-> SubSeq(h1, k + 1, Len(h1)),
      evicted |-> SubSeq(h1, 1, k),
      warned  |-> p1 # NoMsg /\ p1.tokens > budget,
      err     |-> "nil"]

\* NewLLM with the window's budget read from the generation limit MaxTokens
\* instead of MemoryOption.MaxTokens
NewLLM_GenerationLimit(cfg) ==
  IF cfg.MemoryOption.enabled
  THEN [memory |-> TRUE, maxTokens |-> cfg.MaxTokens,
        provider |-> cfg.Provider, maxRetries |-> cfg.MaxRetries]
  ELSE [memory |-> FALSE, maxTokens |-> 0,
        provider |-> cfg.Provider, maxRetries |-> cfg.MaxRetries]

\* NewLLM: the instance is memory-wrapped exactly when MemoryOption is set,
\* and the window's budget is MemoryOption.MaxTokens
NewLLM(cfg) ==
  IF cfg.MemoryOption.enabled
  THEN [memory |-> TRUE, maxTokens |-> cfg.MemoryOption.MaxTokens,
        provider |-> cfg.Provider, maxRetries |-> cfg.MaxRetries]
  ELSE [memory |-> FALSE, maxTokens |-> 0,
        provider |-> cfg.Provider, maxRetries |-> cfg.MaxRetries]

Providers == {"tongyi", "zhipu", "zhipu_view"}

MemoryOptions ==
  {NoMemory} \cup {[enabled |-> TRUE, MaxTokens |-> b] : b \in 1..MaxBudget}

\* ------------------------------------------------------------------ text
\* Texts are sequences of one-character strings.
\* Tick stands for the backquote character of a Markdown code fence.
Tick == "~"
FenceOpen == <<Tick, Tick, Tick, "j", "s", "o", "n">>
FenceClose == <<Tick, Tick, Tick>>
Spaces == {" ", "\n", "\t", "\r"}
EmptyText == <<>>

\* strings.TrimPrefix
TrimPrefix(s, p) ==
  IF Len(s) >= Len(p) /\ SubSeq(s, 1, Len(p)) = p
  THEN SubSeq(s, Len(p) + 1, Len(s)) ELSE s

\* strings.TrimSuffix
TrimSuffix(s, p) ==
  IF Len(s) >= Len(p) /\ SubSeq(s, Len(s) - Len(p) + 1, Len(s)) = p
  THEN SubSeq(s, 1, Len(s) - Len(p)) ELSE s

\* strings.Index for a one-character pattern: 0-based, -1 when absent
Index(s, c) ==
  IF \E i \in 1..Len(s) : s[i] = c
  THEN (CHOOSE i \in 1..Len(s) : s[i] = c /\ \A j \in 1..(i - 1) : s[j] # c) - 1
  ELSE -1

\* strings.LastIndex for a one-character pattern: 0-based, -1 when absent
LastIndex(s, c) ==
  IF \E i \in 1..Len(s) : s[i] = c
  THEN (CHOOSE i \in 1..Len(s) : s[i] = c /\ \A j \in (i + 1)..Len(s) : s[j] # c) - 1
  ELSE -1

RECURSIVE TrimLeft(_)
TrimLeft(s) ==
  IF s # <<>> /\ Head(s) \in Spaces THEN TrimLeft(Tail(s)) ELSE s

RECURSIVE TrimRight(_)
TrimRight(s) ==
  IF s # <<>> /\ s[Len(s)] \in Spaces THEN TrimRight(SubSeq(s, 1, Len(s) - 1)) ELSE s

\* strings.TrimSpace
TrimSpace(s) == TrimRight(TrimLeft(s))

\* CleanResponse: drop the leading and the trailing code-fence marker, clip to the span
\* from the first opening brace to the last closing brace when there is one, trim white space
CleanResponse(response) ==
  LET r1 == TrimPrefix(response, FenceOpen)
      r2 == TrimSuffix(r1, FenceClose)
      start == Index(r2, "{")
      end == LastIndex(r2, "}")
      r3 == IF start # -1 /\ end # -1 /\ end > start
            THEN SubSeq(r2, start + 1, end + 1) ELSE r2
  IN TrimSpace(r3)

\* the parts a text is put together from: what leads, an opening fence marker
\* or none, white space, the body, white space, a closing fence marker or
\* none, what trails
RECURSIVE Pad(_)
Pad(n) == IF n = 0 THEN <<>> ELSE <<"\n">> \o Pad(n - 1)
Pads == {Pad(n) : n \in 0..MaxPad}
Leads == Pads \cup {<<"x", " ">>}
Trails == Pads \cup {<<" ", "y">>}
\* no JSON object, plain words, one JSON object, one JSON object holding another
TextBodies == {<<>>, <<"h", "i">>, <<"{", "a", "}">>,
               <<"{", "a", "{", "b", "}", "}">>}
TextShapes ==
  [lead : Leads, fenced : BOOLEAN, inner : Pads, body : TextBodies, trail : Trails]
BuildText(shape) ==
  shape.lead
    \o (IF shape.fenced THEN FenceOpen ELSE <<>>)
    \o shape.inner \o shape.body \o shape.inner
    \o (IF shape.fenced THEN FenceClose ELSE <<>>)
    \o shape.trail
NoShape == [lead |-> <<>>, fenced |-> FALSE, inner |-> <<>>, body |-> <<>>,
            trail |-> <<>>]
NoClean == [shape |-> NoShape, input |-> <<>>, applied |-> 0, once |-> <<>>,
            twice |-> <<>>]

\* ---------------------------------------------------------------- errors
\* An error value: its kind, the attempt that produced it (what tells one
\* attempt's error from another's) and the text a caller wrapped around it.
NoErr == [kind |-> "nil", attempt |-> 0, wrap |-> ""]
Err(kind, attempt) == [kind |-> kind, attempt |-> attempt, wrap |-> ""]
\* fmt.Errorf(prefix + ": %w", err)
Wrap(prefix, err) == [err EXCEPT !.wrap = prefix]

RetryableKinds == {"TransportError", "MalformedResponse", "EmptyResponse"}

\* ------------------------------------------------------------- providers
\* A response body: whether it decodes as JSON, and the entries of its
\* "choices" (message.content) and "data" (url) arrays.
ParseEntries(body, entries) ==
  IF ~body.json THEN [text |-> EmptyText, err |-> "MalformedResponse"]
  ELSE IF Len(entries) = 0 \/ entries[1] = EmptyText
       THEN [text |-> EmptyText, err |-> "EmptyResponse"]
       ELSE [text |-> entries[1], err |-> "nil"]

\* TongYiProvider.ParseResponse without the test for zero choices: an empty
\* answer is handed back as a success
TongYiParseResponse_NoEmptyCheck(body) ==
  IF ~body.json THEN [text |-> EmptyText, err |-> "MalformedResponse"]
  ELSE IF Len(body.choices) = 0 THEN [text |-> EmptyText, err |-> "nil"]
       ELSE [text |-> body.choices[1], err |-> "nil"]

\* ZhiPuViewParseResponse testing only for zero data entries: an entry with
\* an empty url is handed back as a success
ZhiPuViewParseResponse_NoUrlCheck(body) ==
  IF ~body.json THEN [text |-> EmptyText, err |-> "MalformedResponse"]
  ELSE IF Len(body.data) = 0 THEN [text |-> EmptyText, err |-> "EmptyResponse"]
       ELSE [text |-> body.data[1], err |-> "nil"]

TongYiParseResponse(body) == ParseEntries(body, body.choices)
ZhiPuParseResponse(body) == ParseEntries(body, body.choices)
ZhiPuViewParseResponse(body) == ParseEntries(body, body.data)

\* Provider.ParseResponse of the instance's provider
ParseResponse(provider, body) ==
  CASE provider = "tongyi" -> TongYiParseResponse(body)
    [] provider = "zhipu" -> ZhiPuParseResponse(body)
    [] provider = "zhipu_view" -> ZhiPuViewParseResponse(body)

\* sample texts a backend answers with
TextPlain == <<"o", "k">>
TextFenced == FenceOpen \o <<"{", "a", "}">> \o FenceClose
TextProse == <<"x", " ", "{", "a", "}", " ", "y">>

EntryLists == {<<>>, <<EmptyText>>, <<TextPlain>>, <<TextProse, TextFenced>>}
\* a body is a chat answer (choices) or an image answer (data); one that does
\* not decode yields no entries
Bodies ==
  {b \in [json : BOOLEAN, choices : EntryLists, data : EntryLists] :
     /\ b.choices = <<>> \/ b.data = <<>>
     /\ ~b.json => b.choices = <<>> /\ b.data = <<>>}
\* what one exchange with the backend yields: a transport failure or a body
TransportFailure == [json |-> FALSE, choices |-> <<>>, data |-> <<>>, transport |-> TRUE]

\* ------------------------------------------------------- ProviderRegistry
\* the constructors of the providers at hand: a provider keeps the key and the
\* model it was built with
NewTongYiProvider(apiKey, model) ==
  [type |-> "TongYiProvider", apiKey |-> apiKey, model |-> model]
NewZhiPuProvider(apiKey, model) ==
  [type |-> "ZhiPuProvider", apiKey |-> apiKey, model |-> model]
NewZhiPuViewProvider(apiKey, model) ==
  [type |-> "ZhiPuViewProvider", apiKey |-> apiKey, model |-> model]
\* two constructors a caller of the library brings along
NewCustomA(apiKey, model) ==
  [type |-> "CustomA", apiKey |-> apiKey, model |-> model]
NewCustomB(apiKey, model) ==
  [type |-> "CustomB", apiKey |-> apiKey, model |-> model]

\* constructors are function values; the model names them
BuiltinConstructors == {"NewTongYiProvider", "NewZhiPuProvider", "NewZhiPuViewProvider"}
CustomConstructors == {"NewCustomA", "NewCustomB"}
Constructors == BuiltinConstructors \cup CustomConstructors
\* calling a constructor
Construct(ctor, apiKey, model) ==
  CASE ctor = "NewTongYiProvider" -> NewTongYiProvider(apiKey, model)
    [] ctor = "NewZhiPuProvider" -> NewZhiPuProvider(apiKey, model)
    [] ctor = "NewZhiPuViewProvider" -> NewZhiPuViewProvider(apiKey, model)
    [] ctor = "NewCustomA" -> NewCustomA(apiKey, model)
    [] ctor = "NewCustomB" -> NewCustomB(apiKey, model)

ProviderNames == Providers \cup {"x"}
NoProvider == [type |-> "none", apiKey |-> "", model |-> ""]
NoResolution == [name |-> "", provider |-> NoProvider, err |-> "nil"]

\* Register keeping the constructor a name was first registered with
Register_FirstWins(ctors, name, ctor) ==
  IF ctors[name] = "none" THEN [ctors EXCEPT ![name] = ctor] ELSE ctors

\* ProviderRegistry.Register: the name resolves to this constructor from now on
Register(ctors, name, ctor) == [ctors EXCEPT ![name] = ctor]

\* the registry resolving a name: the provider its constructor builds, or
\* UnknownProvider for a name never registered
Get(ctors, name, apiKey, model) ==
  IF ctors[name] = "none"
  THEN [name |-> name, provider |-> NoProvider, err |-> "UnknownProvider"]
  ELSE [name |-> name, provider |-> Construct(ctors[name], apiKey, model),
        err |-> "nil"]

\* RegisterTongYiProvider registering the constructor of the provider next to it
RegisterTongYiProvider_ZhiPuConstructor(ctors) ==
  Register(ctors, "tongyi", "NewZhiPuProvider")

RegisterTongYiProvider(ctors) == Register(ctors, "tongyi", "NewTongYiProvider")
RegisterZhiPuProvider(ctors) == Register(ctors, "zhipu", "NewZhiPuProvider")
RegisterZhiPuViewProvider(ctors) ==
  Register(ctors, "zhipu_view", "NewZhiPuViewProvider")

\* a registry nothing was registered with
NewProviderRegistry ==
  [ctors |-> [n \in ProviderNames |-> "none"], log |-> <<>>,
   resolved |-> NoResolution]

\* ------------------------------------------------------- Generate pipeline
\* a call: where it stands; whether it asked for JSON-schema validation, and
\* whether it did so for a prompt that does not validate; id and tokens of its user message; the failed attempts
\* made, the error of the latest one and what the backend answered then; the
\* exchanges with the backend; the delays slept; what the call returned
NoCall == [pc |-> "idle", useJSONSchema |-> FALSE, schemaInvalid |-> FALSE,
           userId |-> 0, userTokens |-> 0,
           failures |-> 0, lastErr |-> NoErr, shape |-> "none",
           providerCalls |-> 0, sleeps |-> 0,
           raw |-> EmptyText, text |-> EmptyText, err |-> NoErr]

\* what the backend answered, as the instance's provider reads it
BodyShape(provider, outcome) ==
  LET entries == IF provider = "zhipu_view" THEN outcome.data ELSE outcome.choices
  IN IF "transport" \in DOMAIN outcome THEN "transport"
     ELSE IF ~outcome.json THEN "undecodable"
     ELSE IF Len(entries) = 0 THEN "zero"
     ELSE IF entries[1] = EmptyText THEN "emptyfirst"
     ELSE "text"

\* llmImpl.Generate logging a failed validation and going on
ValidationFails_Ignored(useJSONSchema, valid) == FALSE

\* llmImpl.Generate, lines 370-378: with JSON-schema validation enabled a
\* prompt that fails llm.Validate ends the call before anything is sent
ValidationFails(useJSONSchema, valid) == useJSONSchema /\ ~valid

\* llmImpl.Generate, lines 373-376: the validation error as returned
ValidationErr == Wrap("invalid prompt", Err("ValidationError", 0))

\* llmImpl.Generate reporting every error of the internal Generate as one
\* generic failure, the cancellation of the context included
GenerateErr_Generic(err) ==
  IF err.kind = "CancellationError" THEN Err("TransportError", err.attempt) ELSE err

\* llmImpl.Generate wrapping the internal error as it wraps a validation error
GenerateErr_Wrapped(err) == Wrap("generate failed", err)

\* llmImpl.Generate, lines 385-391: an error of the internal Generate is
\* returned to the caller as it is
GenerateErr(err) == err

\* llmImpl.Generate, lines 395-401: the text returned on success
GenerateText(response) == CleanResponse(response)

\* Generate pipeline: after a failed attempt another one follows when the
\* failure is retryable and fewer than MaxRetries retries were made
Retries(kind, failures, maxRetries) ==
  kind \in RetryableKinds /\ failures <= maxRetries

\* -------------------------------------------------------- Prompt Optimizer
Seed == "write a haiku"
TaskDesc == "produce a vivid haiku about rain"
\* the texts a rewrite by the LLM comes back with
Rewrites == {"rewrite a", "rewrite b"}
\* OverallScore and Threshold in twentieths: 10 is 0.5, 14 is 0.7, 18 is 0.9,
\* 19 is 0.95
Scores == {0, 10, 14, 19}
Thresholds == {0, 18}

\* llm.NewPromptOptimizer: the internal optimizer over the initial prompt; the
\* settings it starts from are replaced by the options of every run here
NewInternalOptimizer(prompt, taskDesc) ==
  [prompt |-> prompt, taskDesc |-> taskDesc, iterations |-> 0, threshold |-> 0,
   maxRetries |-> 0, callback |-> "none"]

\* WithIterations handing the internal optimizer one iteration too many
WithIterations_OffByOne(o, iterations) ==
  [o EXCEPT !.internal.iterations = iterations + 1]

\* WithIterations
WithIterations(o, iterations) == [o EXCEPT !.internal.iterations = iterations]

\* WithThreshold
WithThreshold(o, threshold) == [o EXCEPT !.internal.threshold = threshold]

\* WithMaxRetries handing on the number of attempts, one more than the retries
WithMaxRetries_Attempts(o, maxRetries) ==
  [o EXCEPT !.internal.maxRetries = maxRetries + 1]

\* WithMaxRetries
WithMaxRetries(o, maxRetries) == [o EXCEPT !.internal.maxRetries = maxRetries]

\* WithVerbose
WithVerbose(o) == [o EXCEPT !.verbose = TRUE]

\* WithIterationCallback: keeps the callback, turns verbose off and has the
\* internal optimizer call a function that forwards to po.callback
WithIterationCallback(o, callback) ==
  [o EXCEPT !.callback = callback, !.verbose = FALSE,
            !.internal.callback = "forward"]

\* the options about the callback a caller may give, in the order given
CallbackOptions ==
  {<<>>, <<"WithVerbose">>, <<"WithIterationCallback">>,
   <<"WithVerbose", "WithIterationCallback">>,
   <<"WithIterationCallback", "WithVerbose">>}

RECURSIVE ApplyCallbackOptions(_, _)
\* NewPromptOptimizer, lines 208-210: the options applied in order
ApplyCallbackOptions(o, opts) ==
  IF opts = <<>> THEN o
  ELSE ApplyCallbackOptions(
         IF Head(opts) = "WithVerbose" THEN WithVerbose(o)
         ELSE WithIterationCallback(o, "custom"),
         Tail(opts))

\* NewPromptOptimizer, lines 212-221: with verbose on or a callback set the
\* internal optimizer calls a function that chooses at each call
InstallCallback(o) ==
  IF o.verbose \/ o.callback # "none"
  THEN [o EXCEPT !.internal.callback = "dispatch"] ELSE o

\* the function NewPromptOptimizer installs trying verbose first
IterationCallback_VerboseFirst(o) ==
  CASE o.internal.callback = "forward" -> o.callback
    [] o.internal.callback = "dispatch" ->
         IF o.verbose THEN "defaultVerboseCallback" ELSE o.callback
    [] OTHER -> "none"

\* what runs when the internal optimizer calls its iteration callback: the
\* function WithIterationCallback installed forwards to po.callback when set;
\* the one NewPromptOptimizer installed calls po.callback when set, and
\* defaultVerboseCallback otherwise when verbose is on
IterationCallback(o) ==
  CASE o.internal.callback = "forward" -> o.callback
    [] o.internal.callback = "dispatch" ->
         IF o.callback # "none" THEN o.callback
         ELSE IF o.verbose THEN "defaultVerboseCallback" ELSE "none"
    [] OTHER -> "none"

\* NewPromptOptimizer with the task description taken for the initial prompt
NewPromptOptimizer_TaskAsPrompt(initialPrompt, taskDesc, opts) ==
  InstallCallback(
    ApplyCallbackOptions(
      WithMaxRetries(
        WithThreshold(
          WithIterations(
            [internal |-> NewInternalOptimizer(taskDesc, taskDesc),
             callback |-> "none", memorySize |-> 2, verbose |-> FALSE],
            opts.iterations),
          opts.threshold),
        opts.maxRetries),
      opts.callbacks))

\* NewPromptOptimizer: the internal optimizer over the initial prompt, memory
\* size 2, not verbose, then the options applied in order, then the iteration
\* callback installed
NewPromptOptimizer(initialPrompt, taskDesc, opts) ==
  InstallCallback(
    ApplyCallbackOptions(
      WithMaxRetries(
        WithThreshold(
          WithIterations(
            [internal |-> NewInternalOptimizer(initialPrompt, taskDesc),
             callback |-> "none", memorySize |-> 2, verbose |-> FALSE],
            opts.iterations),
          opts.threshold),
        opts.maxRetries),
      opts.callbacks))

\* GetOptimizationHistory returning only the memorySize most recent entries
GetOptimizationHistory_RecentWindow ==
  LET h == run.history
  IN SubSeq(h, IF Len(h) > po.memorySize THEN Len(h) - po.memorySize + 1 ELSE 1,
            Len(h))

\* PromptOptimizer.GetOptimizationHistory: the internal optimizer's history
GetOptimizationHistory == run.history

\* PromptOptimizer.OptimizePrompt dropping the error of the internal run
OptimizePrompt_ErrorDropped(ret) == [text |-> ret.prompt, err |-> NoErr]

\* PromptOptimizer.OptimizePrompt returning the initial prompt of the optimizer
OptimizePrompt_InitialPrompt(ret) ==
  IF ret.err # NoErr
  THEN [text |-> "", err |-> Wrap("optimization failed", ret.err)]
  ELSE [text |-> po.internal.prompt, err |-> NoErr]

\* PromptOptimizer.OptimizePrompt: what the caller gets for what the internal
\* run returned
OptimizePrompt(ret) ==
  IF ret.err # NoErr
  THEN [text |-> "", err |-> Wrap("optimization failed", ret.err)]
  ELSE [text |-> ret.prompt, err |-> NoErr]

\* the internal run's result: the last recorded candidate, or an error when
\* no iteration completed
InternalResult(h, kind) ==
  IF h # <<>>
  THEN [prompt |-> h[Len(h)].prompt, err |-> NoErr]
  ELSE [prompt |-> "", err |-> Err(kind, 0)]

\* the entry of a history with the highest score, the earliest of equals
BestEntry(h) ==
  h[CHOOSE i \in 1..Len(h) :
      /\ \A j \in 1..Len(h) : h[j].score <= h[i].score
      /\ \A j \in 1..(i - 1) : h[j].score < h[i].score]

\* a rewrite derived from the best entry so far
RewriteBase_BestScore(h) == BestEntry(h)

\* Generate candidate: a rewrite is derived from the previous iteration's
\* candidate and its assessment, the latest entry of the history
RewriteBase(h) == h[Len(h)]

\* a run: its state and iteration, the candidate at hand, the history, the
\* failed attempts of the assessment at hand, the assessments recorded, the
\* rewrites asked for and the entry each was derived from, and what
\* OptimizePrompt returned
NoRun == [pc |-> "Initial", iter |-> 0, candidate |-> "", history |-> <<>>,
          failures |-> 0, attempts |-> 0, assessed |-> 0, rewriteCalls |-> 0,
          bases |-> <<>>, callbacks |-> <<>>,
          result |-> [text |-> "", err |-> NoErr]]
NoOptions == [iterations |-> 0, threshold |-> 0, maxRetries |-> 0,
              callbacks |-> <<>>]

InitOptimizerIdle ==
  /\ optOpts = NoOptions
  /\ po = NewPromptOptimizer(Seed, TaskDesc, NoOptions)
  /\ run = NoRun
  /\ optCancelled = FALSE

\* ------------------------------------------------- concurrent Generate calls
\* the two calls in flight on one instance
Flights == {1, 2}
\* a call: where it stands, the message it is appending, the window as its
\* Append read it, the ids of its user message and of its reply
NoFlight == [pc |-> "idle", msg |-> NoMsg,
             snap |-> [pinned |-> NoMsg, history |-> <<>>],
             userId |-> 0, replyId |-> 0, err |-> "nil"]

InitFlightsIdle ==
  /\ flights = [c \in Flights |-> NoFlight]
  /\ mutex = 0
  /\ evicted = {}

\* Lock without mutual exclusion
TryLock_NoMutex(mu) == TRUE

\* the window's mutex can be taken when no call holds it
TryLock(mu) == mu = 0

\* -------------------------------------------------------------------- logger
\* the two calls compared: the same inputs, a logger each
LogRuns == {1, 2}

\* The logger field of an llmImpl: a logger writing every event, the logger
\* Generate installs for itself (minimum level WARN), a logger that drops
\* every event, a logger whose sink fails on every write, or no logger.
InjectedLoggers == {"real", "noop", "failing", "nil"}

\* what the internal Generate (the provider behind it) gives back
Behaviours ==
  [response : {TextPlain, TextProse, TextFenced}, err : {NoErr}]
    \cup [response : {EmptyText},
          err : {Err(k, 1) : k \in {"TransportError", "CancellationError"}}]

\* a call: where it stands, the logger of its instance, its inputs, the
\* events its logger wrote, the writes that failed, and what it returned
NoLogRun == [pc |-> "idle", logger |-> "noop",
             useJSONSchema |-> FALSE, valid |-> TRUE,
             behaviour |-> [response |-> EmptyText, err |-> NoErr],
             events |-> <<>>, failures |-> 0,
             text |-> EmptyText, err |-> NoErr]
NoLogRuns == [r \in LogRuns |-> NoLogRun]

\* whether a logger writes an event of the level
Written(logger, level) ==
  \/ logger = "real"
  \/ logger = "warn" /\ level \in {"warn", "error"}

\* l.logger.Debug, Warn or Error: the methods return nothing, so a write
\* that fails stays inside the logger; a method call on the nil logger is a
\* nil dereference, the run-time panic that ends the call
Log(r, level, msg) ==
  IF r.pc = "panic" THEN r
  ELSE IF r.logger = "nil" THEN [r EXCEPT !.pc = "panic"]
  ELSE IF Written(r.logger, level) THEN [r EXCEPT !.events = Append(@, msg)]
  ELSE IF r.logger = "failing" THEN [r EXCEPT !.failures = @ + 1]
  ELSE r

\* the call goes on to the next stage, or returns, unless it panicked
Goto(r, pc) == IF r.pc = "panic" THEN r ELSE [r EXCEPT !.pc = pc]
Return(r, text, err) ==
  IF r.pc = "panic" THEN r
  ELSE [r EXCEPT !.pc = "done", !.text = text, !.err = err]

\* llmImpl.Generate, lines 339-342
LogStart(r) == Goto(Log(r, "debug", "Starting Generate method"), "started")

\* llmImpl.Generate, lines 356-360 (the instance and its internal LLM are
\* there, so the checks of lines 344-354 pass)
EnsureLogger(r) ==
  Goto(IF r.logger = "nil"
       THEN Log([r EXCEPT !.logger = "warn"], "warn", "Logger was nil")
       ELSE r,
       "ensured")

\* llmImpl.Generate, lines 362-378
ApplyAndValidate(r) ==
  LET a == Log(r, "debug", "Generate options applied")
  IN IF ~r.useJSONSchema THEN Goto(a, "validated")
     ELSE LET b == Log(a, "debug", "Validating prompt with JSON schema")
          IN IF ValidationFails(r.useJSONSchema, r.valid)
             THEN Return(Log(b, "error", "Prompt validation failed"),
                         EmptyText, ValidationErr)
             ELSE Goto(Log(b, "debug", "Prompt validation successful"),
                       "validated")

\* llmImpl.Generate, lines 380-393
SendToLLM(r) ==
  LET a == Log(r, "debug", "Sending prompt to LLM")
  IN IF r.behaviour.err # NoErr
     THEN Return(Log(a, "error", "Error from LLM.Generate"),
                 EmptyText, GenerateErr(r.behaviour.err))
     ELSE Goto(Log(a, "debug", "Received response from LLM"), "received")

\* llmImpl.Generate, lines 395-401
CleanAndReturn(r) ==
  LET cleanedResponse == GenerateText(r.behaviour.response)
  IN Return(Log(r, "debug", "Response cleaned"), cleanedResponse, NoErr)

\* ---------------------------------------------- specification: Memory Window
MemConfigs ==
  [MaxTokens : {MaxBudget + 1}, MemoryOption : MemoryOptions,
   Provider : {"tongyi"}, MaxRetries : {0}]

InitInstance ==
  /\ llm = NewLLM(config)
  /\ pinned = NoMsg
  /\ history = <<>>
  /\ appended = <<>>
  /\ nextId = 0
  /\ lastAppend = NoAppend
  /\ gen = NoCall
  /\ cancelled = FALSE
  /\ calls = 0

InitWindow ==
  /\ InitInstance
  /\ InitOptimizerIdle
  /\ registry = NewProviderRegistry
  /\ clean = NoClean
  /\ logruns = NoLogRuns
  /\ InitFlightsIdle

InitMemory ==
  /\ config \in MemConfigs
  /\ InitWindow

\* one Append on the window of a memory-wrapped instance
DoAppend(role, tokens) ==
  LET m == [role |-> role, id |-> nextId + 1, tokens |-> tokens]
      r == AppendResult(pinned, history, m, Pins(m), llm.maxTokens)
  IN /\ pinned' = r.pinned
     /\ history' = r.history
     /\ appended' = IF Pins(m) THEN appended ELSE Append(appended, m.id)
     /\ nextId' = nextId + 1
     /\ lastAppend' = [evicted |-> Ids(r.evicted), warned |-> r.warned,
                       err |-> r.err, id |-> m.id, role |-> m.role]

MemAppend ==
  /\ llm.memory
  /\ gen.pc \in {"idle", "done"}
  /\ nextId < MaxAppends
  /\ \E role \in Roles, tokens \in 0..MaxMsgTokens : DoAppend(role, tokens)
  /\ UNCHANGED <<config, llm, gen, cancelled, calls, optVars, libVars, concVars>>

\* llmImpl.ClearMemory: empties the window of a memory-wrapped instance, and
\* does nothing on a plain one
ClearMemory ==
  /\ gen.pc \in {"idle", "done"}
  /\ IF llm.memory
     THEN /\ pinned' = NoMsg
          /\ history' = <<>>
     ELSE UNCHANGED <<pinned, history>>
  /\ lastAppend' = NoAppend
  /\ UNCHANGED <<config, llm, appended, nextId, gen, cancelled, calls, optVars, libVars, concVars>>

\* llmImpl.GetMemory: the window's messages, or nil on a plain instance
GetMemory == IF llm.memory THEN BuildContext ELSE <<>>

NextMemory == MemAppend \/ ClearMemory

SpecMemory == InitMemory /\ [][NextMemory]_vars

\* ------------------------------------------- specification: Generate pipeline
GenConfigs ==
  [MaxTokens : {MaxBudget + 1}, MemoryOption : MemoryOptions,
   Provider : Providers, MaxRetries : 0..MaxRetriesBound]

InitGenerate ==
  /\ config \in GenConfigs
  /\ InitWindow

\* Generate is entered under a live context: options applied, the prompt
\* validated when asked for; on a memory-wrapped instance the user message is
\* appended before the pipeline runs
GenStart ==
  /\ gen.pc \in {"idle", "done"}
  /\ calls < MaxCalls
  /\ nextId + 2 <= MaxAppends
  /\ calls' = calls + 1
  /\ cancelled' = FALSE
  /\ \E useJSONSchema \in BOOLEAN, valid \in BOOLEAN, tokens \in 0..MaxMsgTokens :
       IF ValidationFails(useJSONSchema, valid)
       THEN /\ gen' = [NoCall EXCEPT !.pc = "done",
                                     !.useJSONSchema = useJSONSchema,
                                     !.schemaInvalid = useJSONSchema /\ ~valid,
                                     !.err = ValidationErr]
            /\ UNCHANGED <<pinned, history, appended, nextId, lastAppend>>
       ELSE /\ gen' = [NoCall EXCEPT !.pc = "attempt",
                                     !.useJSONSchema = useJSONSchema,
                                     !.schemaInvalid = useJSONSchema /\ ~valid,
                                     !.userId = IF llm.memory THEN nextId + 1 ELSE 0,
                                     !.userTokens = IF llm.memory THEN tokens ELSE 0]
            /\ IF llm.memory
               THEN DoAppend("user", tokens)
               ELSE UNCHANGED <<pinned, history, appended, nextId, lastAppend>>
  /\ UNCHANGED <<config, llm, optVars, libVars, concVars>>

\* the call ends with an error; the window is left as it is
GenFail(e, shape, failures, pcalls) ==
  /\ gen' = [gen EXCEPT !.pc = "done", !.failures = failures, !.lastErr = e,
                        !.shape = shape, !.providerCalls = pcalls,
                        !.err = GenerateErr(e)]
  /\ UNCHANGED <<pinned, history, appended, nextId, lastAppend>>

\* the context has ended: the call returns the cancellation error at once
GenCancelled ==
  GenFail(Err("CancellationError", gen.providerCalls), "none", gen.failures,
          gen.providerCalls)

\* one attempt: the exchange with the backend and the parse of its answer
GenAttempt ==
  /\ gen.pc = "attempt"
  /\ IF cancelled
     THEN GenCancelled
     ELSE \E outcome \in Bodies \cup {TransportFailure} :
            LET n == gen.failures + 1
                parsed == ParseResponse(llm.provider, outcome)
                kind == IF outcome = TransportFailure
                        THEN "TransportError" ELSE parsed.err
                shape == BodyShape(llm.provider, outcome)
            IN IF kind = "nil"
               THEN /\ gen' = [gen EXCEPT !.pc = "done",
                                          !.shape = shape,
                                          !.providerCalls = @ + 1,
                                          !.raw = parsed.text,
                                          !.text = GenerateText(parsed.text),
                                          !.err = NoErr]
                    /\ IF llm.memory
                       THEN \E tokens \in 0..MaxMsgTokens :
                              DoAppend("assistant", tokens)
                       ELSE UNCHANGED <<pinned, history, appended, nextId, lastAppend>>
               ELSE IF Retries(kind, n, llm.maxRetries)
                    THEN /\ gen' = [gen EXCEPT !.pc = "sleep", !.failures = n,
                                               !.lastErr = Err(kind, n),
                                               !.shape = shape,
                                               !.providerCalls = @ + 1]
                         /\ UNCHANGED <<pinned, history, appended, nextId, lastAppend>>
                    ELSE GenFail(Err(kind, n), shape, n, gen.providerCalls + 1)
  /\ UNCHANGED <<config, llm, cancelled, calls, optVars, libVars, concVars>>

\* the delay between two attempts has passed
GenSleepDone ==
  /\ gen.pc = "sleep"
  /\ ~cancelled
  /\ gen' = [gen EXCEPT !.pc = "attempt", !.sleeps = @ + 1]
  /\ UNCHANGED <<config, llm, pinned, history, appended, nextId, lastAppend,
                 cancelled, calls, optVars, libVars, concVars>>

\* the context ended during the delay: the call returns at once
GenSleepCancelled ==
  /\ gen.pc = "sleep"
  /\ cancelled
  /\ GenCancelled
  /\ UNCHANGED <<config, llm, cancelled, calls, optVars, libVars, concVars>>

\* the caller cancels the context of the call in flight
Cancel ==
  /\ gen.pc \in {"attempt", "sleep"}
  /\ ~cancelled
  /\ cancelled' = TRUE
  /\ UNCHANGED <<config, llm, pinned, history, appended, nextId, lastAppend,
                 gen, calls, optVars, libVars, concVars>>

NextGenerate ==
  \/ GenStart
  \/ GenAttempt
  \/ GenSleepDone
  \/ GenSleepCancelled
  \/ Cancel
  \/ ClearMemory

SpecGenerate == InitGenerate /\ [][NextGenerate]_vars

\* ------------------- specification: one plain instance, cancellation observed
\* A call blocked in the delay between two attempts wakes up when its context
\* ends (the delay selects on the context), so the return on a cancelled delay
\* is taken once it is enabled.
InitCancel ==
  /\ config \in {c \in GenConfigs : ~c.MemoryOption.enabled}
  /\ InitWindow

NextCancel ==
  \/ GenStart
  \/ GenAttempt
  \/ GenSleepDone
  \/ GenSleepCancelled
  \/ Cancel

SpecCancel ==
  InitCancel /\ [][NextCancel]_vars /\ WF_vars(GenSleepCancelled)

\* --------------------------------------------- specification: CleanResponse
InitClean ==
  /\ config \in {c \in MemConfigs : ~c.MemoryOption.enabled}
  /\ InitInstance
  /\ InitOptimizerIdle
  /\ registry = NewProviderRegistry
  /\ \E shape \in TextShapes :
       clean = [NoClean EXCEPT !.shape = shape, !.input = BuildText(shape)]
  /\ logruns = NoLogRuns
  /\ InitFlightsIdle

\* CleanResponse is applied to the text
CleanOnce ==
  /\ clean.applied = 0
  /\ clean' = [clean EXCEPT !.applied = 1, !.once = CleanResponse(clean.input)]
  /\ UNCHANGED <<llmVars, optVars, registry, logruns, concVars>>

\* CleanResponse is applied to what it returned
CleanTwice ==
  /\ clean.applied = 1
  /\ clean' = [clean EXCEPT !.applied = 2, !.twice = CleanResponse(clean.once)]
  /\ UNCHANGED <<llmVars, optVars, registry, logruns, concVars>>

NextClean == CleanOnce \/ CleanTwice

SpecClean == InitClean /\ [][NextClean]_vars

\* ------------------------------------------ specification: ProviderRegistry
ApiKey == "key"
Model == "model"

InitRegistry ==
  /\ config \in {c \in MemConfigs : ~c.MemoryOption.enabled}
  /\ InitWindow

\* one of the registration functions of the providers is called
RegisterBuiltin ==
  /\ Len(registry.log) < MaxRegisters
  /\ \/ registry' = [registry EXCEPT
                       !.ctors = RegisterTongYiProvider(@),
                       !.log = Append(@, <<"tongyi", "NewTongYiProvider">>)]
     \/ registry' = [registry EXCEPT
                       !.ctors = RegisterZhiPuProvider(@),
                       !.log = Append(@, <<"zhipu", "NewZhiPuProvider">>)]
     \/ registry' = [registry EXCEPT
                       !.ctors = RegisterZhiPuViewProvider(@),
                       !.log = Append(@, <<"zhipu_view", "NewZhiPuViewProvider">>)]
  /\ UNCHANGED <<llmVars, optVars, clean, logruns, concVars>>

\* a caller registers a constructor of its own, under a new name or under the
\* name of a provider at hand
RegisterCustom ==
  /\ Len(registry.log) < MaxRegisters
  /\ \E name \in {"x", "tongyi"}, ctor \in CustomConstructors :
       registry' = [registry EXCEPT !.ctors = Register(@, name, ctor),
                                    !.log = Append(@, <<name, ctor>>)]
  /\ UNCHANGED <<llmVars, optVars, clean, logruns, concVars>>

\* a name is resolved
Resolve ==
  /\ \E name \in ProviderNames :
       registry' = [registry EXCEPT
                      !.resolved = Get(registry.ctors, name, ApiKey, Model)]
  /\ UNCHANGED <<llmVars, optVars, clean, logruns, concVars>>

NextRegistry == RegisterBuiltin \/ RegisterCustom \/ Resolve

SpecRegistry == InitRegistry /\ [][NextRegistry]_vars

\* ------------------- specification: two Generate calls on one Memory Window
InitConcurrent ==
  /\ config \in {c \in MemConfigs : c.MemoryOption.enabled}
  /\ InitWindow

\* before any call the conversation is given its system message
ConcSystem ==
  /\ nextId = 0
  /\ \A c \in Flights : flights[c].pc = "idle"
  /\ \E tokens \in 0..MaxMsgTokens : DoAppend("system", tokens)
  /\ UNCHANGED <<config, llm, gen, cancelled, calls, optVars, libVars, concVars>>

\* Generate is called: the call is about to append its user message
ConcGenerate(c) ==
  /\ flights[c].pc = "idle"
  /\ \E tokens \in 0..MaxMsgTokens :
       flights' = [flights EXCEPT ![c].pc = "lock",
                     ![c].msg = [role |-> "user", id |-> 0, tokens |-> tokens]]
  /\ UNCHANGED <<llmVars, optVars, libVars, mutex, evicted>>

\* Append, first half: the call takes the mutex and reads the window
ConcLock(c) ==
  /\ flights[c].pc = "lock"
  /\ TryLock(mutex)
  /\ mutex' = c
  /\ nextId' = nextId + 1
  /\ flights' = [flights EXCEPT
                   ![c].pc = "write",
                   ![c].msg.id = nextId + 1,
                   ![c].snap = [pinned |-> pinned, history |-> history],
                   ![c].userId = IF @ = 0 THEN nextId + 1 ELSE @,
                   ![c].replyId = IF flights[c].userId = 0 THEN 0 ELSE nextId + 1]
  /\ UNCHANGED <<config, llm, pinned, history, appended, lastAppend, gen,
                 cancelled, calls, optVars, libVars, evicted>>

\* Append, second half: the message is added to what was read, the front is
\* evicted while the total exceeds the budget, the window is written and the
\* mutex released
ConcWrite(c) ==
  /\ flights[c].pc = "write"
  /\ LET f == flights[c]
         pins == /\ f.msg.role = "system"
                 /\ f.snap.pinned = NoMsg
                 /\ f.snap.history = <<>>
         r == AppendResult(f.snap.pinned, f.snap.history, f.msg, pins,
                           llm.maxTokens)
     IN /\ pinned' = r.pinned
        /\ history' = r.history
        /\ appended' = Append(appended, f.msg.id)
        /\ evicted' = evicted \cup {r.evicted[i].id : i \in 1..Len(r.evicted)}
        /\ lastAppend' = [evicted |-> Ids(r.evicted), warned |-> r.warned,
                          err |-> r.err, id |-> f.msg.id, role |-> f.msg.role]
        /\ flights' = [flights EXCEPT
                         ![c].pc = IF f.msg.role = "user" THEN "pipeline" ELSE "done"]
  /\ mutex' = IF mutex = c THEN 0 ELSE mutex
  /\ UNCHANGED <<config, llm, nextId, gen, cancelled, calls, optVars, libVars>>

\* the Generate pipeline of the call runs to its end: with a reply, which the
\* call is then about to append, or with an error, which ends the call
ConcPipeline(c) ==
  /\ flights[c].pc = "pipeline"
  /\ \/ \E tokens \in 0..MaxMsgTokens :
          flights' = [flights EXCEPT ![c].pc = "lock",
                        ![c].msg = [role |-> "assistant", id |-> 0,
                                    tokens |-> tokens]]
     \/ \E kind \in RetryableKinds :
          flights' = [flights EXCEPT ![c].pc = "done", ![c].err = kind]
  /\ UNCHANGED <<llmVars, optVars, libVars, mutex, evicted>>

NextConcurrent ==
  \/ ConcSystem
  \/ \E c \in Flights :
       ConcGenerate(c) \/ ConcLock(c) \/ ConcWrite(c) \/ ConcPipeline(c)

SpecConcurrent == InitConcurrent /\ [][NextConcurrent]_vars

\* ------------------------------------------- specification: Prompt Optimizer
OptOptions ==
  [iterations : 1..MaxIterations, threshold : Thresholds,
   maxRetries : 0..MaxOptRetries, callbacks : CallbackOptions]

InitOptimizer ==
  /\ config \in {c \in MemConfigs : ~c.MemoryOption.enabled}
  /\ llm = NewLLM(config)
  /\ pinned = NoMsg
  /\ history = <<>>
  /\ appended = <<>>
  /\ nextId = 0
  /\ lastAppend = NoAppend
  /\ gen = NoCall
  /\ cancelled = FALSE
  /\ calls = 0
  /\ optOpts \in OptOptions
  /\ po = NewPromptOptimizer(Seed, TaskDesc, optOpts)
  /\ run = NoRun
  /\ optCancelled = FALSE
  /\ registry = NewProviderRegistry
  /\ clean = NoClean
  /\ logruns = NoLogRuns
  /\ InitFlightsIdle

\* the run ends: OptimizePrompt returns; kind is the error the internal run
\* reports when no iteration was recorded
Terminate(r, kind) ==
  [r EXCEPT !.pc = "Terminated",
            !.result = OptimizePrompt(InternalResult(r.history, kind))]

\* OptimizePrompt is called: the first candidate is the initial prompt
OptStart ==
  /\ run.pc = "Initial"
  /\ run' = [run EXCEPT !.pc = "Evaluating", !.iter = 1,
                        !.candidate = po.internal.prompt]
  /\ UNCHANGED <<libVars, concVars, llmVars, optOpts, po, optCancelled>>

\* an assessment attempt fails (malformed or empty grader answer): another
\* attempt follows after RetryDelay unless MaxRetries retries were made, and
\* then the run ends
AssessFail ==
  /\ run.pc = "Evaluating"
  /\ ~optCancelled
  /\ LET r == [run EXCEPT !.failures = @ + 1, !.attempts = @ + 1]
     IN run' = IF r.failures <= po.internal.maxRetries
               THEN r ELSE Terminate(r, "OptimizationExhausted")
  /\ UNCHANGED <<libVars, concVars, llmVars, optOpts, po, optCancelled>>

\* Record: the entry is appended to the history, and then the iteration
\* callback, when one is installed, is called in line with the 1-based index
\* of the iteration and the entry
Record(r, entry) ==
  LET h == Append(r.history, entry)
      fn == IterationCallback(po)
  IN [r EXCEPT !.history = h,
               !.callbacks = IF fn = "none" THEN @
                             ELSE Append(@, [fn |-> fn, iteration |-> r.iter,
                                             entry |-> entry, len |-> Len(h)])]

\* an assessment succeeds: Record the entry, then Decide
AssessOk ==
  /\ run.pc = "Evaluating"
  /\ ~optCancelled
  /\ \E score \in Scores :
       LET r == [Record(run, [prompt |-> run.candidate, score |-> score])
                   EXCEPT !.assessed = @ + 1, !.attempts = @ + 1]
       IN run' = IF score >= po.internal.threshold
                    \/ run.iter >= po.internal.iterations
                 THEN Terminate(r, "OptimizationExhausted")
                 ELSE [r EXCEPT !.pc = "Improving"]
  /\ UNCHANGED <<libVars, concVars, llmVars, optOpts, po, optCancelled>>

\* the LLM rewrites the latest candidate; the next iteration evaluates it
Improve ==
  /\ run.pc = "Improving"
  /\ ~optCancelled
  /\ \E text \in Rewrites :
       run' = [run EXCEPT !.pc = "Evaluating", !.iter = @ + 1,
                          !.candidate = text, !.failures = 0, !.attempts = 0,
                          !.rewriteCalls = @ + 1,
                          !.bases = Append(@, RewriteBase(run.history))]
  /\ UNCHANGED <<libVars, concVars, llmVars, optOpts, po, optCancelled>>

\* the caller cancels the context of the run
OptCancel ==
  /\ run.pc \in {"Evaluating", "Improving"}
  /\ ~optCancelled
  /\ optCancelled' = TRUE
  /\ UNCHANGED <<libVars, concVars, llmVars, optOpts, po, run>>

\* the run sees that its context has ended, and ends
OptCancelled ==
  /\ run.pc \in {"Evaluating", "Improving"}
  /\ optCancelled
  /\ run' = Terminate(run, "CancellationError")
  /\ UNCHANGED <<libVars, concVars, llmVars, optOpts, po, optCancelled>>

NextOptimizer ==
  \/ OptStart
  \/ AssessFail
  \/ AssessOk
  \/ Improve
  \/ OptCancel
  \/ OptCancelled

SpecOptimizer == InitOptimizer /\ [][NextOptimizer]_vars

\* A run is one sequential loop in the goroutine that called OptimizePrompt:
\* an assessment attempt comes back (with an assessment or a failure), a
\* rewrite comes back, an ended context is seen.  While the run is under way
\* one of these steps is always possible, and the loop takes it.
RunStep == AssessFail \/ AssessOk \/ Improve \/ OptCancelled

SpecOptimizerFair == SpecOptimizer /\ WF_vars(RunStep)

\* ------------------------ specification: one call under two different loggers
\* Two instances that differ in their logger only are given the same prompt
\* and the same options, and their provider behaves the same.
InitLogger ==
  /\ config \in {c \in MemConfigs : ~c.MemoryOption.enabled}
  /\ InitInstance
  /\ InitOptimizerIdle
  /\ registry = NewProviderRegistry
  /\ clean = NoClean
  /\ InitFlightsIdle
  /\ \E useJSONSchema \in BOOLEAN, valid \in BOOLEAN, behaviour \in Behaviours,
        loggers \in [LogRuns -> InjectedLoggers] :
       logruns = [r \in LogRuns |->
                    [NoLogRun EXCEPT !.logger = loggers[r],
                                     !.useJSONSchema = useJSONSchema,
                                     !.valid = valid,
                                     !.behaviour = behaviour]]

LogFrame == UNCHANGED <<llmVars, optVars, registry, clean, concVars>>

\* the call enters Generate and logs that it did
GenerateStart(r) ==
  /\ logruns[r].pc = "idle"
  /\ logruns' = [logruns EXCEPT ![r] = LogStart(logruns[r])]
  /\ LogFrame

\* the call makes sure it has a logger
GenerateEnsure(r) ==
  /\ logruns[r].pc = "started"
  /\ logruns' = [logruns EXCEPT ![r] = EnsureLogger(logruns[r])]
  /\ LogFrame

\* the options are applied and the prompt is validated when they ask for it
GenerateValidate(r) ==
  /\ logruns[r].pc = "ensured"
  /\ logruns' = [logruns EXCEPT ![r] = ApplyAndValidate(logruns[r])]
  /\ LogFrame

\* the prompt goes to the internal Generate, which answers
GenerateSend(r) ==
  /\ logruns[r].pc = "validated"
  /\ logruns' = [logruns EXCEPT ![r] = SendToLLM(logruns[r])]
  /\ LogFrame

\* the response is cleaned and returned
GenerateClean(r) ==
  /\ logruns[r].pc = "received"
  /\ logruns' = [logruns EXCEPT ![r] = CleanAndReturn(logruns[r])]
  /\ LogFrame

NextLogger ==
  \E r \in LogRuns :
    \/ GenerateStart(r)
    \/ GenerateEnsure(r)
    \/ GenerateValidate(r)
    \/ GenerateSend(r)
    \/ GenerateClean(r)

SpecLogger == InitLogger /\ [][NextLogger]_vars

\* ------------------------------------------------------------------ claims

\* C1: on a memory-wrapped instance the token sum of the retained history, as
\* GetMemory shows it, is at most the configured budget MemoryOption.MaxTokens
\* in every reachable state, except when the retained history is the pinned
\* system message alone.
C1_BudgetRespected ==
  llm.memory =>
    \/ TokenSum(GetMemory) <= config.MemoryOption.MaxTokens
    \/ pinned # NoMsg /\ GetMemory = <<pinned>>

\* C1 witness: an Append evicted two messages and left a pinned message and
\* retained messages whose tokens use the budget up.
C1_Witness ==
  /\ llm.memory
  /\ Len(lastAppend.evicted) >= 2
  /\ pinned # NoMsg
  /\ history # <<>>
  /\ TokenSum(GetMemory) = config.MemoryOption.MaxTokens

IsSuffix(s, t) ==
  Len(s) <= Len(t) /\ SubSeq(t, Len(t) - Len(s) + 1, Len(t)) = s

\* C2: eviction is FIFO.  In every reachable state the retained non-pinned
\* messages are a suffix of the sequence of all non-pinned messages appended,
\* and the messages the latest Append evicted are the ones right before that
\* suffix: the oldest retained ones, in order.
C2_FifoEviction ==
  /\ IsSuffix(Ids(history), appended)
  /\ lastAppend.id # 0 =>
       /\ IsSuffix(lastAppend.evicted \o Ids(history), appended)
       /\ Len(appended) > 0 /\ lastAppend.id # pinned.id =>
            appended[Len(appended)] = lastAppend.id

\* C2 witness: an Append evicted a message and two messages survive it.
C2_Witness ==
  /\ lastAppend.evicted # <<>>
  /\ Len(history) >= 2
  /\ Head(history).id > 1

\* C3: no Append evicts the pinned system message (a system message appended
\* to an empty window), not even one whose tokens exceed the budget, be it the
\* Append that pins it or a later one: the Append returns no error, reports the overflow as a
\* warning, and BuildContext starts with the pinned system message, the only
\* system message that is exempt.
C3_PinnedNeverEvicted ==
  [][nextId' # nextId =>
       /\ pinned # NoMsg => pinned' = pinned
       /\ pinned = NoMsg /\ history = <<>> /\ lastAppend'.role = "system" =>
            pinned' # NoMsg /\ pinned'.id = lastAppend'.id
       /\ lastAppend'.err = "nil"
       /\ pinned' # NoMsg =>
            /\ pinned'.role = "system"
            /\ Head(BuildContext') = pinned'
            /\ \A i \in 2..Len(BuildContext') : BuildContext'[i] # pinned'
            /\ lastAppend'.warned <=> pinned'.tokens > llm.maxTokens
       /\ pinned' = NoMsg => ~lastAppend'.warned]_vars

\* C3 witness: a message was appended to a window whose pinned system message
\* alone exceeds the budget; the pinned message is all that is retained.
C3_Witness ==
  /\ pinned # NoMsg
  /\ pinned.tokens > llm.maxTokens
  /\ lastAppend.id > pinned.id
  /\ lastAppend.warned
  /\ BuildContext = <<pinned>>

\* the step in which a Generate call on a memory-wrapped instance ends on an
\* answer with zero choices/data entries
C4_FailsOnZeroEntries ==
  /\ llm.memory
  /\ gen.pc = "attempt"
  /\ gen'.pc = "done"
  /\ gen'.shape = "zero"

\* C4 as stated: such a call returns the EmptyResponse error, and the window
\* afterwards contains the call's user message and no assistant reply.
C4_Original ==
  [][C4_FailsOnZeroEntries =>
       /\ gen'.err.kind = "EmptyResponse"
       /\ \E i \in 1..Len(history') : history'[i].id = gen'.userId
       /\ nextId' = gen'.userId]_vars

\* C4 amended: such a call returns the EmptyResponse error of its last attempt
\* and no text; it appended the user message and nothing after it, and the
\* failure itself leaves the window as the Append of the user message left it:
\* the user message is the newest retained message when it fits the budget
\* beside the pinned message, and is gone (with every other non-pinned
\* message) when it does not.
C4_EmptyResponseKeepsUserOnly ==
  [][C4_FailsOnZeroEntries =>
       /\ gen'.err = Err("EmptyResponse", gen'.providerCalls)
       /\ gen'.text = EmptyText
       /\ nextId' = gen'.userId
       /\ appended'[Len(appended')] = gen'.userId
       /\ <<pinned', history'>> = <<pinned, history>>
       /\ IF pinned.tokens + gen.userTokens <= llm.maxTokens
          THEN /\ history' # <<>>
               /\ history'[Len(history')] =
                    [role |-> "user", id |-> gen.userId, tokens |-> gen.userTokens]
          ELSE history' = <<>>]_vars

\* C4 witness: a second call on a memory-wrapped instance failed with
\* EmptyResponse on zero entries after a retry; its user message is retained
\* behind the first call's messages.
C4_Witness ==
  /\ llm.memory
  /\ gen.pc = "done"
  /\ gen.shape = "zero"
  /\ gen.err.kind = "EmptyResponse"
  /\ gen.providerCalls >= 2
  /\ Len(history) >= 2
  /\ history[Len(history)].id = gen.userId
  /\ nextId = gen.userId

\* C5: a run terminates at the first iteration whose OverallScore reaches the
\* threshold.  No entry but the last of the history reaches it; and once the
\* latest entry, of iteration i <= cap, reaches it, the run is terminated with
\* exactly i entries and OptimizePrompt has returned, without error, the
\* candidate of iteration i.
C5_StopsAtFirstPassingScore ==
  LET H == GetOptimizationHistory
      n == Len(H)
  IN /\ \A j \in 1..(n - 1) : H[j].score < optOpts.threshold
     /\ n > 0 /\ H[n].score >= optOpts.threshold =>
          /\ run.pc = "Terminated"
          /\ n = run.iter
          /\ n <= optOpts.iterations
          /\ H[n].prompt = run.candidate
          /\ run.result = [text |-> run.candidate, err |-> NoErr]

\* C5 witness: seed "write a haiku", threshold 0.9, scores 0.5, 0.7, 0.95:
\* terminated after iteration 3 with 3 entries, the third candidate (a rewrite
\* other than the second) returned.
C5_Witness ==
  /\ optOpts.threshold = 18
  /\ run.pc = "Terminated"
  /\ Len(run.history) = 3
  /\ run.history[1] = [prompt |-> Seed, score |-> 10]
  /\ run.history[2].score = 14
  /\ run.history[3].score = 19
  /\ run.history[3].prompt # run.history[2].prompt
  /\ run.result = [text |-> run.history[3].prompt, err |-> NoErr]

\* C6: with an iteration cap N >= 1 the history never holds more than N
\* entries, and a run that has terminated without cancellation and without an
\* assessment exhausting its retries, no score having reached the threshold,
\* holds exactly N.
C6_CapGivesExactlyN ==
  LET H == GetOptimizationHistory
  IN /\ Len(H) <= optOpts.iterations
     /\ ( /\ run.pc = "Terminated"
          /\ ~optCancelled
          /\ run.failures <= optOpts.maxRetries
          /\ \A j \in 1..Len(H) : H[j].score < optOpts.threshold )
        => Len(H) = optOpts.iterations

\* C6 witness: cap 3, three scores below the threshold, no failed assessment
\* in the last iteration, no cancellation: terminated with 3 entries.
C6_Witness ==
  /\ optOpts.iterations = 3
  /\ run.pc = "Terminated"
  /\ ~optCancelled
  /\ run.failures = 0
  /\ Len(run.history) = 3
  /\ \A j \in 1..3 : run.history[j].score < optOpts.threshold

\* C7: with Threshold = 0.0 (scores being non-negative) a run makes one
\* iteration and no rewrite call whatever the cap and the score; once its
\* assessment has succeeded the run is terminated with one entry, the seed, and
\* OptimizePrompt has returned the seed prompt unchanged.
C7_ZeroThresholdReturnsSeed ==
  LET H == GetOptimizationHistory
  IN optOpts.threshold = 0 =>
       /\ Len(H) <= 1
       /\ run.iter <= 1
       /\ run.rewriteCalls = 0
       /\ Len(H) = 1 =>
            /\ run.pc = "Terminated"
            /\ H[1].prompt = Seed
            /\ run.result = [text |-> Seed, err |-> NoErr]
       /\ run.pc = "Terminated" /\ run.result.err = NoErr => Len(H) = 1

\* C7 witness: threshold 0, cap 3, the lowest score: terminated after one
\* iteration with the seed returned.
C7_Witness ==
  /\ optOpts.threshold = 0
  /\ optOpts.iterations = 3
  /\ run.pc = "Terminated"
  /\ Len(run.history) = 1
  /\ run.history[1].score = 0
  /\ run.result.text = Seed

\* C8: the history GetOptimizationHistory returns is append-only.  Across
\* every step the earlier history is a prefix of the later one; it grows by
\* one entry in the step that completes an iteration (a successful assessment)
\* and by none in any other step, a failed assessment attempt included.
C8_HistoryAppendOnly ==
  [][LET H == GetOptimizationHistory
         H2 == GetOptimizationHistory'
     IN /\ Len(H) <= Len(H2)
        /\ SubSeq(H2, 1, Len(H)) = H
        /\ run'.assessed - run.assessed \in {0, 1}
        /\ Len(H2) = Len(H) + (run'.assessed - run.assessed)
        /\ run'.failures > run.failures => H2 = H]_vars

\* C8 witness: three entries recorded, the third after a failed attempt that
\* was retried.
C8_Witness ==
  /\ Len(run.history) = 3
  /\ run.assessed = 3
  /\ run.failures = 1
  /\ run.pc = "Terminated"


\* C9: one Generate call makes at most MaxRetries+1 attempts and sleeps at
\* most MaxRetries times; it stops at the first success (a successful call
\* made exactly one attempt more than it had failures); and a call that failed
\* on a retryable error used every attempt and returns exactly the last
\* attempt's error: same kind, same attempt, nothing wrapped around it.
C9_RetryBoundLastError ==
  /\ gen.providerCalls <= llm.maxRetries + 1
  /\ gen.sleeps <= llm.maxRetries
  /\ gen.pc = "done" /\ gen.err = NoErr =>
       /\ gen.providerCalls = gen.failures + 1
       /\ gen.shape = "text"
  /\ gen.pc = "done" /\ gen.err.kind \in RetryableKinds =>
       /\ gen.providerCalls = llm.maxRetries + 1
       /\ gen.failures = gen.providerCalls
       /\ gen.err = gen.lastErr
       /\ gen.err = Err(gen.err.kind, gen.providerCalls)
  /\ gen.pc = "done" /\ gen.lastErr.kind \in RetryableKinds /\ gen.err # NoErr =>
       gen.err = gen.lastErr

\* C9 witness: with MaxRetries = 1 a call failed twice, the second time on a
\* malformed response, and returned that error.
C9_Witness ==
  /\ llm.maxRetries = 1
  /\ gen.pc = "done"
  /\ gen.providerCalls = 2
  /\ gen.sleeps = 1
  /\ gen.err = Err("MalformedResponse", 2)

\* C10: non-retryable errors end the call at once.  A call that asked for
\* JSON-schema validation of a prompt that does not validate is over with the
\* validation error before any exchange with the backend, any retry, any delay
\* and any Append; and once the context of a call in flight has ended, the
\* call's next step returns the cancellation error without a further exchange
\* or delay.
C10_NonRetryableImmediate ==
  [][/\ gen'.schemaInvalid =>
          /\ gen'.pc = "done"
          /\ gen'.err.kind = "ValidationError"
          /\ gen'.providerCalls = 0 /\ gen'.failures = 0 /\ gen'.sleeps = 0
          /\ gen'.userId = 0
          /\ calls' # calls => UNCHANGED <<pinned, history, appended, nextId>>
     /\ gen'.pc = "done" /\ gen'.err.kind = "ValidationError" => gen'.schemaInvalid
     /\ cancelled /\ gen.pc \in {"attempt", "sleep"} /\ gen' # gen =>
          /\ gen'.pc = "done"
          /\ gen'.err.kind = "CancellationError"
          /\ gen'.providerCalls = gen.providerCalls
          /\ gen'.sleeps = gen.sleeps
          /\ gen'.failures = gen.failures]_vars

\* C10 witness: a call on a memory-wrapped instance that already holds a
\* conversation was rejected by validation; nothing was sent or appended.
C10_Witness ==
  /\ gen.pc = "done"
  /\ gen.schemaInvalid
  /\ gen.err.kind = "ValidationError"
  /\ gen.providerCalls = 0
  /\ llm.memory
  /\ calls = 2
  /\ nextId = 2

\* C11: a context cancelled while Generate sleeps between two attempts ends the
\* call at once.  The only step the call takes from a cancelled delay is its
\* return: with the cancellation error, unwrapped, of a kind that is no
\* retryable failure and is not the error of the failed attempt before; the
\* delay is not counted as slept and no further exchange is made.  And the
\* call does return: a cancelled delay leads to the finished call.
C11_CancelledSleepReturns ==
  /\ [][cancelled /\ gen.pc = "sleep" /\ gen' # gen =>
          /\ gen'.pc = "done"
          /\ gen'.err = Err("CancellationError", gen.providerCalls)
          /\ gen'.err.kind \notin RetryableKinds
          /\ gen'.err.kind # gen.lastErr.kind
          /\ gen'.text = EmptyText
          /\ gen'.sleeps = gen.sleeps
          /\ gen'.providerCalls = gen.providerCalls
          /\ gen'.failures = gen.failures]_vars
  /\ (cancelled /\ gen.pc = "sleep") ~>
       (gen.pc = "done" /\ gen.err.kind = "CancellationError")

\* C11 witness: with MaxRetries = 1 the second call on the instance was
\* cancelled in the delay after its first failed attempt: one exchange, no
\* delay slept through, the cancellation error returned.
C11_Witness ==
  /\ llm.maxRetries = 1
  /\ calls = 2
  /\ cancelled
  /\ gen.pc = "done"
  /\ gen.err.kind = "CancellationError"
  /\ gen.failures = 1
  /\ gen.providerCalls = 1
  /\ gen.sleeps = 0

RECURSIVE LastRegistered(_, _)
\* the constructor of the most recent Register call for a name in a log of
\* calls, "none" when the name was never registered
LastRegistered(log, name) ==
  IF log = <<>> THEN "none"
  ELSE IF log[Len(log)][1] = name THEN log[Len(log)][2]
       ELSE LastRegistered(SubSeq(log, 1, Len(log) - 1), name)

\* C12: after any sequence of Register calls, resolving a name yields the
\* provider built by the constructor of the most recent Register call for that
\* name (with the key and the model given), whatever was registered for it
\* before; resolving a name never registered fails with UnknownProvider and
\* yields no provider.  The latest resolution returned just that for the
\* registrations made before it.
C12_LastRegisterWins ==
  /\ \A n \in ProviderNames :
       LET last == LastRegistered(registry.log, n)
           got == Get(registry.ctors, n, ApiKey, Model)
       IN IF last = "none"
          THEN got.err = "UnknownProvider" /\ got.provider = NoProvider
          ELSE got.err = "nil" /\ got.provider = Construct(last, ApiKey, Model)
  /\ registry.resolved.err = "UnknownProvider" =>
       registry.resolved.provider = NoProvider
  /\ registry.resolved.err = "nil" /\ registry.resolved.name # "" =>
       \E i \in 1..Len(registry.log) :
         /\ registry.log[i][1] = registry.resolved.name
         /\ registry.resolved.provider = Construct(registry.log[i][2], ApiKey, Model)

\* C12 witness: "x" registered twice with different constructors, and
\* "tongyi" registered by RegisterTongYiProvider and then by a caller; "x"
\* resolved to the second constructor's provider.
C12_Witness ==
  /\ registry.log = <<<<"x", "NewCustomA">>, <<"tongyi", "NewTongYiProvider">>,
                      <<"x", "NewCustomB">>>>
  /\ registry.resolved = [name |-> "x", provider |-> NewCustomB(ApiKey, Model),
                          err |-> "nil"]

\* C13: CleanResponse is idempotent on every text that holds at most one JSON
\* object, wrapped in code fences or not, texts without a JSON object and
\* fenced texts followed by white space included: applying it to what it
\* returned returns the same.
C13_Idempotent ==
  clean.applied = 2 => clean.twice = clean.once

\* C14: ParseResponse of every provider reports what it cannot use and never
\* succeeds with an empty text.  An attempt whose body does not decode fails
\* with the malformed-response error; one whose decoded body has zero
\* choices/data entries, or an empty text in its first entry, fails with the
\* empty-response error; and a call succeeds only on a body whose first entry
\* holds a text, which is the non-empty text ParseResponse returned.
C14_ParseResponseNeverEmptySuccess ==
  /\ gen.shape = "undecodable" => gen.lastErr.kind = "MalformedResponse"
  /\ gen.shape \in {"zero", "emptyfirst"} => gen.lastErr.kind = "EmptyResponse"
  /\ gen.shape = "text" =>
       gen.pc = "done" /\ gen.err = NoErr /\ gen.raw # EmptyText
  /\ gen.pc = "done" /\ gen.err = NoErr =>
       gen.shape = "text" /\ gen.raw \in {TextPlain, TextProse}

\* C14 witness: on a zhipu_view instance a call ended with the empty-response
\* error on a body whose first data entry has an empty url, after an earlier
\* attempt of the call had failed.
C14_Witness ==
  /\ llm.provider = "zhipu_view"
  /\ gen.pc = "done"
  /\ gen.shape = "emptyfirst"
  /\ gen.err.kind = "EmptyResponse"
  /\ gen.providerCalls = 2

\* C15: OptimizePrompt returns an error only when no iteration was recorded,
\* and then no text.  A run that recorded an iteration and ends because a
\* later assessment exhausted its retries (or on cancellation) returns, without
\* error, the prompt of the last recorded entry; and the step that ends a run
\* on a failure leaves what GetOptimizationHistory returns as it was.
C15_ErrorOnlyWithoutIteration ==
  [][run.pc # "Terminated" /\ run'.pc = "Terminated" =>
       LET H == GetOptimizationHistory
           H2 == GetOptimizationHistory'
           failed == run'.failures > po.internal.maxRetries \/ optCancelled
       IN /\ run'.result.err # NoErr => H2 = <<>>
          /\ H2 = <<>> =>
               /\ run'.result.text = ""
               /\ run'.result.err.kind \in {"OptimizationExhausted", "CancellationError"}
               /\ run'.result.err.wrap = "optimization failed"
          /\ H2 # <<>> =>
               run'.result = [text |-> H2[Len(H2)].prompt, err |-> NoErr]
          /\ failed => H2 = H /\ Len(H2) = run'.assessed]_vars

\* C15 witness: with MaxRetries = 1 the assessment of the third iteration
\* failed twice; the run ended with the two entries recorded before and
\* returned the second one's prompt, a rewrite, without error.
C15_Witness ==
  /\ optOpts.maxRetries = 1
  /\ run.pc = "Terminated"
  /\ run.iter = 3
  /\ run.failures = 2
  /\ Len(run.history) = 2
  /\ run.history[2].prompt \in Rewrites
  /\ run.result = [text |-> run.history[2].prompt, err |-> NoErr]

\* C16: the optimizer never rewinds.  The candidate of every iteration i > 1
\* is a rewrite derived from the entry of iteration i-1 (its candidate and its
\* assessment), also when an earlier entry scored higher; and the text a run
\* returns is the prompt of the latest entry recorded, which for a run ending
\* on the threshold or the cap is the candidate of its last iteration, and not
\* the prompt of the best-scoring entry when that is another.
C16_NeverRewinds ==
  LET H == GetOptimizationHistory
      B == run.bases
  IN /\ run.iter >= 1 => Len(B) = run.iter - 1
     /\ \A i \in 2..run.iter : B[i - 1] = H[i - 1]
     /\ run.pc = "Terminated" /\ H # <<>> =>
          /\ run.result.text = H[Len(H)].prompt
          /\ BestEntry(H).prompt # H[Len(H)].prompt =>
               run.result.text # BestEntry(H).prompt
          /\ ~optCancelled /\ run.failures <= po.internal.maxRetries =>
               run.result.text = run.candidate

\* C16 witness: scores 0.7, 0.5 and 0 against threshold 0.9 with cap 3: the
\* third candidate was derived from the second entry, not from the first, which
\* scored higher, and the text returned is the third candidate, not the seed.
C16_Witness ==
  /\ run.pc = "Terminated"
  /\ ~optCancelled
  /\ Len(run.history) = 3
  /\ run.history[1].score = 14
  /\ run.history[2].score = 10
  /\ run.history[3].score = 0
  /\ run.bases[2] = run.history[2]
  /\ run.history[3].prompt # run.history[2].prompt
  /\ run.result.text = run.history[3].prompt
  /\ BestEntry(run.history).prompt = Seed

\* C17: every run reaches Terminated.  Whatever the cap, MaxRetries and the
\* grader do, a run never makes more iterations than the cap nor more than
\* MaxRetries+1 assessment attempts in one iteration; a terminated run ended
\* on the threshold, on the cap, on exhausted retries or on cancellation; and
\* a run that was started terminates.
C17_RunTerminates ==
  /\ [](LET H == GetOptimizationHistory
        IN /\ run.iter <= optOpts.iterations
           /\ Len(H) <= optOpts.iterations
           /\ run.attempts <= optOpts.maxRetries + 1
           /\ run.failures <= optOpts.maxRetries + 1
           /\ run.pc = "Terminated" =>
                \/ H # <<>> /\ H[Len(H)].score >= optOpts.threshold
                \/ Len(H) = optOpts.iterations
                \/ run.failures = optOpts.maxRetries + 1
                \/ optCancelled)
  /\ (run.pc # "Initial") ~> (run.pc = "Terminated")

\* C17 witness: cap 3 and MaxRetries 1 used up to the last: the run reached
\* its third iteration, whose assessment failed twice, and ended there.
C17_Witness ==
  /\ optOpts.iterations = 3
  /\ optOpts.maxRetries = 1
  /\ run.pc = "Terminated"
  /\ ~optCancelled
  /\ run.iter = 3
  /\ run.attempts = 2
  /\ run.failures = 2
  /\ Len(run.history) = 2

\* C18: the iteration callback.  With a callback supplied it is what runs, it
\* alone, also when verbose mode was asked for before or after it: once for
\* every entry of the history and for nothing else (so not for a failed
\* assessment attempt), the k-th call with index k, with the k-th entry, made
\* when the history held k entries.  With verbose mode alone the default
\* callback runs in the same way; with neither nothing runs.
C18_CallbackOncePerIteration ==
  LET H == GetOptimizationHistory
      C == run.callbacks
      custom == \E i \in 1..Len(optOpts.callbacks) :
                  optOpts.callbacks[i] = "WithIterationCallback"
      verbose == \E i \in 1..Len(optOpts.callbacks) :
                   optOpts.callbacks[i] = "WithVerbose"
  IN /\ custom \/ verbose => Len(C) = Len(H)
     /\ ~custom /\ ~verbose => C = <<>>
     /\ \A k \in 1..Len(C) :
          /\ C[k].fn = IF custom THEN "custom" ELSE "defaultVerboseCallback"
          /\ C[k].iteration = k
          /\ C[k].len = k
          /\ C[k].entry = H[k]

\* C18 witness: WithIterationCallback given first and WithVerbose after it;
\* three iterations completed, the third after a failed attempt, and the
\* custom callback ran three times.
C18_Witness ==
  /\ optOpts.callbacks = <<"WithIterationCallback", "WithVerbose">>
  /\ po.verbose
  /\ run.pc = "Terminated"
  /\ run.failures = 1
  /\ Len(run.history) = 3
  /\ Len(run.callbacks) = 3
  /\ run.callbacks[3] = [fn |-> "custom", iteration |-> 3,
                         entry |-> run.history[3], len |-> 3]

\* C19: Appends of two Generate calls in flight on one memory-wrapped
\* instance do not interfere.  In every reachable state each message written
\* to the window is retained or was evicted, and not both (none lost); no
\* message is retained twice; the retained messages stand in the order of
\* their Appends, the latest ones of all appended; and their token sum is within
\* the budget, the pinned system message alone excepted.
C19_AppendsSerialized ==
  LET retained == {history[i].id : i \in 1..Len(history)}
      written == {appended[i] : i \in 1..Len(appended)}
  IN /\ written = retained \cup evicted
     /\ retained \cap evicted = {}
     /\ Cardinality(retained) = Len(history)
     /\ Cardinality(written) = Len(appended)
     /\ IsSuffix(Ids(history), appended)
     /\ \A c \in Flights :
          /\ flights[c].pc \in {"pipeline", "done"} => flights[c].userId \in written
          /\ flights[c].pc = "done" /\ flights[c].err = "nil" =>
               flights[c].replyId \in written
     /\ \/ TokenSum(GetMemory) <= config.MemoryOption.MaxTokens
        \/ pinned # NoMsg /\ GetMemory = <<pinned>>

\* C19 witness: both calls appended their user messages before either reply
\* was appended, the replies came in the other order, and the window, full to
\* the budget, retains the two replies behind the pinned system message.
C19_Witness ==
  /\ \A c \in Flights : flights[c].pc = "done" /\ flights[c].err = "nil"
  /\ flights[1].userId < flights[2].userId
  /\ flights[2].userId < flights[2].replyId
  /\ flights[2].replyId < flights[1].replyId
  /\ pinned # NoMsg
  /\ Ids(history) = <<flights[2].replyId, flights[1].replyId>>
  /\ evicted = {flights[1].userId, flights[2].userId}
  /\ TokenSum(GetMemory) = config.MemoryOption.MaxTokens

\* C20: the text a successful public Generate returns is the provider's parsed
\* text, stripped of the fence markers and clipped to the span from the first
\* opening to the last closing brace, when the call asked for structured
\* (JSON) output; and the parsed text itself, not clipped, when it did not.
C20_ClipsOnlyWhenStructured ==
  gen.pc = "done" /\ gen.err = NoErr =>
    IF gen.useJSONSchema
    THEN gen.text = CleanResponse(gen.raw)
    ELSE gen.text = gen.raw

\* C21: the logger does not influence the outcome of Generate: two calls on
\* the same prompt, the same options and the same provider behaviour return
\* the same text and the same error whatever logger each instance has (one
\* that writes, one that drops every event, one whose writes fail, or none,
\* in which case Generate installs a WARN-level logger and goes on), and no
\* logging step ends a call before it returns.
LogFinished(r) == logruns[r].pc \in {"done", "panic"}
C21_LoggerDoesNotInfluence ==
  /\ \A r \in LogRuns : logruns[r].pc # "panic"
  /\ \A a, b \in LogRuns :
       LogFinished(a) /\ LogFinished(b) =>
         /\ logruns[a].text = logruns[b].text
         /\ logruns[a].err = logruns[b].err

====
